---------------------------- MODULE Spec2Model ----------------------------
(***************************************************************************)
(* A model of the scoring engine of the SkinSeoul merchandising system:    *)
(* models/scoring_model.py (ProductScorer).  A table (pandas DataFrame) is *)
(* a record [cols, rows]: cols is the sequence of column names and rows    *)
(* the sequence of rows, each a function from column name to cell.         *)
(*                                                                         *)
(* Numbers are exact rationals <<n, d>> with d > 0 in lowest terms; the    *)
(* float NaN is <<0, 0>> and +inf is <<1, 0>>.  Exact arithmetic stands in *)
(* for IEEE doubles: rounding is not modelled.                             *)
(***************************************************************************)
EXTENDS Integers, Sequences, FiniteSets, TLC

(* ------------------------------ bounds -------------------------------- *)
\* The longest input table drawn from the catalog (the four-row table of
\* the integration test is added to the inputs whatever this bound is).
MaxLen == 3

(* ----------------------------- rationals ------------------------------ *)
Abs(a) == IF a < 0 THEN 0 - a ELSE a

RECURSIVE Gcd(_, _)
Gcd(a, b) == IF b = 0 THEN a ELSE Gcd(b, a % b)

\* The rational n/d (d # 0) in lowest terms with a positive denominator.
Q(n, d) ==
    LET g == Gcd(Abs(n), Abs(d))
        s == IF d < 0 THEN 0 - 1 ELSE 1
    IN  <<(s * n) \div g, (s * d) \div g>>

I(n)    == <<n, 1>>
NaN     == <<0, 0>>
Inf     == <<1, 0>>
Zero    == <<0, 1>>
One     == <<1, 1>>
IsNaN(a)    == a = NaN
IsFinite(a) == a[2] > 0

\* Arithmetic on finite values (the pipeline fills NaN before it computes).
RAdd(a, b) == Q(a[1] * b[2] + b[1] * a[2], a[2] * b[2])
RSub(a, b) == Q(a[1] * b[2] - b[1] * a[2], a[2] * b[2])
RMul(a, b) == Q(a[1] * b[1], a[2] * b[2])
RDiv(a, b) == Q(a[1] * b[2], a[2] * b[1])

\* IEEE comparisons: every comparison with NaN is false; +inf is above
\* every finite value.
RLt(a, b) ==
    IF IsNaN(a) \/ IsNaN(b) THEN FALSE
    ELSE IF a = Inf THEN FALSE
    ELSE IF b = Inf THEN TRUE
    ELSE a[1] * b[2] < b[1] * a[2]
RLe(a, b) ==
    IF IsNaN(a) \/ IsNaN(b) THEN FALSE
    ELSE IF b = Inf THEN TRUE
    ELSE IF a = Inf THEN FALSE
    ELSE a[1] * b[2] <= b[1] * a[2]
RGt(a, b) == RLt(b, a)
RGe(a, b) == RLe(b, a)
REq(a, b) == ~IsNaN(a) /\ ~IsNaN(b) /\ a = b

(* ------------------------------- cells -------------------------------- *)
\* A cell is a number (int or float, NaN for a missing value), a Python
\* str (a sequence of characters) or None.
Num(q)  == [t |-> "num", q |-> q]
Str(s)  == [t |-> "str", s |-> s]
None    == [t |-> "none"]
Missing == Num(NaN)

IsNum(c) == c.t = "num"
IsStr(c) == c.t = "str"

Digits == <<"0", "1", "2", "3", "4", "5", "6", "7", "8", "9">>
IsDigit(ch) == \E i \in 1..Len(Digits) : Digits[i] = ch
DigitVal(ch) == (CHOOSE i \in 1..Len(Digits) : Digits[i] = ch) - 1

\* str(v) of a non-negative Python int, as astype(str) renders it.
RECURSIVE IntToStr(_)
IntToStr(n) ==
    IF n < 10 THEN <<Digits[n + 1]>>
    ELSE Append(IntToStr(n \div 10), Digits[(n % 10) + 1])

\* astype(str) of one cell: str(v) of an int, "nan" of a missing float,
\* "None" of None, a str unchanged.  (Raw numeric cells are non-negative
\* ints in every input drawn here; any other float renders as digits that
\* float() reads back to the same value.)
AsTypeStr(c) ==
    IF IsStr(c) THEN c.s
    ELSE IF c.t = "none" THEN <<"N", "o", "n", "e">>
    ELSE IF IsNaN(c.q) THEN <<"n", "a", "n">>
    ELSE IntToStr(c.q[1])

\* .str.replace(',', '', regex=False)
StripCommas(s) == SelectSeq(s, LAMBDA ch : ch # ",")

RECURSIVE DigitsVal(_)
DigitsVal(s) ==
    IF Len(s) = 0 THEN 0
    ELSE 10 * DigitsVal(SubSeq(s, 1, Len(s) - 1)) + DigitVal(s[Len(s)])

RECURSIVE Pow10(_)
Pow10(k) == IF k = 0 THEN 1 ELSE 10 * Pow10(k - 1)

AllDigits(s) == \A i \in 1..Len(s) : IsDigit(s[i])

\* pd.to_numeric(..., errors='coerce') of one string: digits with at most
\* one decimal point parse to their value, "nan" and whatever float()
\* rejects become NaN.
ToNumericCoerce(s) ==
    LET dots == {i \in 1..Len(s) : s[i] = "."}
    IN  IF dots = {} THEN
            IF Len(s) > 0 /\ AllDigits(s) THEN I(DigitsVal(s)) ELSE NaN
        ELSE IF Cardinality(dots) = 1 THEN
            LET p    == CHOOSE i \in dots : TRUE
                ip   == SubSeq(s, 1, p - 1)
                fp   == SubSeq(s, p + 1, Len(s))
            IN  IF Len(ip) + Len(fp) > 0 /\ AllDigits(ip) /\ AllDigits(fp)
                THEN Q(DigitsVal(ip) * Pow10(Len(fp)) + DigitsVal(fp), Pow10(Len(fp)))
                ELSE NaN
        ELSE NaN

(* ------------------------------- tables ------------------------------- *)
Min(a, b) == IF a < b THEN a ELSE b
Max(a, b) == IF a > b THEN a ELSE b

Table(cols, rows) == [cols |-> cols, rows |-> rows]
NRows(t) == Len(t.rows)
HasCol(t, c) == \E i \in 1..Len(t.cols) : t.cols[i] = c
\* df.empty: an axis of length 0.
Empty(t) == Len(t.rows) = 0 \/ Len(t.cols) = 0
\* df[c]: the column as a series (a sequence of cells).
Col(t, c) == [i \in 1..NRows(t) |-> t.rows[i][c]]
\* df.get(c, pd.Series(dtype=...)): the column, or an empty series.
Get(t, c) == IF HasCol(t, c) THEN Col(t, c) ELSE <<>>
\* df[c] = series: overwrite the column in place, or append a new one.
SetCol(t, c, s) ==
    IF HasCol(t, c)
    THEN Table(t.cols, [i \in 1..NRows(t) |-> [t.rows[i] EXCEPT ![c] = s[i]]])
    ELSE Table(Append(t.cols, c), [i \in 1..NRows(t) |-> t.rows[i] @@ (c :> s[i])])
\* df[c] = scalar: the scalar broadcast to every row.
SetScalar(t, c, v) == SetCol(t, c, [i \in 1..NRows(t) |-> v])

\* df[mask]: the rows whose mask entry is true, in order.
RECURSIVE MaskRows(_, _)
MaskRows(rows, mask) ==
    IF Len(rows) = 0 THEN <<>>
    ELSE LET rest == MaskRows(SubSeq(rows, 1, Len(rows) - 1),
                              SubSeq(mask, 1, Len(mask) - 1))
         IN  IF mask[Len(rows)] THEN Append(rest, rows[Len(rows)]) ELSE rest

(* ------------------------- _to_numeric_robust ------------------------- *)
\* pd.api.types.is_numeric_dtype: an int/float column (NaN is a float).
IsNumericDtype(series) == \A i \in 1..Len(series) : IsNum(series[i])

FillNa(q, default) == IF IsNaN(q) THEN default ELSE q

\* A numeric column has its NaN filled; any other column is rendered to
\* strings, stripped of commas and parsed, failures becoming the default.
ToNumericRobust(series, default) ==
    IF IsNumericDtype(series)
    THEN [i \in 1..Len(series) |-> Num(FillNa(series[i].q, default))]
    ELSE [i \in 1..Len(series) |->
             Num(FillNa(ToNumericCoerce(StripCommas(AsTypeStr(series[i]))), default))]

(* --------------------------- preprocess_data -------------------------- *)
ColumnMap ==
    << <<"Price (USD)", "price_usd">>, <<"COGS (USD)", "cogs_usd">>,
       <<"Units in Stock", "units_in_stock">>,
       <<"Days of Inventory", "days_of_inventory">>,
       <<"Views Last Month", "views_last_month">>,
       <<"Volume Sold Last Month", "volume_sold_last_month">>,
       <<"Brand Tier", "brand_tier">>, <<"Product Name", "Product Name">>,
       <<"Brand", "Brand">> >>

NumericInternalCols ==
    {"price_usd", "cogs_usd", "units_in_stock", "days_of_inventory",
     "views_last_month", "volume_sold_last_month"}

\* One turn of the loop over column_map.
MapColumn(t, csv_col, internal_col) ==
    IF HasCol(t, csv_col) THEN
        IF internal_col \in NumericInternalCols
        THEN SetCol(t, internal_col, ToNumericRobust(Col(t, csv_col), Zero))
        ELSE IF internal_col # csv_col
        THEN SetCol(t, internal_col, Col(t, csv_col))
        ELSE t
    ELSE IF internal_col \in NumericInternalCols
        THEN SetScalar(t, internal_col, Num(Zero))
        ELSE SetScalar(t, internal_col, None)

RECURSIVE MapColumns(_, _)
MapColumns(t, k) ==
    IF k = 0 THEN t
    ELSE MapColumn(MapColumns(t, k - 1), ColumnMap[k][1], ColumnMap[k][2])

PreprocessData(df) == MapColumns(df, Len(ColumnMap))

(* ---------------------------- apply_filters --------------------------- *)
\* A mask that drops a record whose stock equals the threshold.
StockMaskStrict(units, min_stock) ==
    [i \in 1..Len(units) |-> RGt(units[i].q, min_stock.q)]
\* The min_stock mask: units >= min_stock.
StockMask(units, min_stock) ==
    [i \in 1..Len(units) |-> RGe(units[i].q, min_stock.q)]
\* The max_inventory_days mask: days <= max_days.
DaysMask(days, max_days) ==
    [i \in 1..Len(days) |-> RLe(days[i].q, max_days.q)]

\* filters.get(key) is None when the key is absent or null; the second
\* mask is computed on the table the first one left.
FilterStock(t, filters) ==
    IF filters.min_stock # None /\ HasCol(t, "units_in_stock")
    THEN Table(t.cols,
               MaskRows(t.rows,
                        StockMask(ToNumericRobust(Col(t, "units_in_stock"), Zero),
                                  filters.min_stock)))
    ELSE t
\* A filter that writes the converted days back into the table.
FilterDaysWriteBack(t, filters) ==
    IF filters.max_inventory_days # None /\ HasCol(t, "days_of_inventory")
    THEN LET days == ToNumericRobust(Col(t, "days_of_inventory"), Inf)
         IN  Table(t.cols,
                   MaskRows(SetCol(t, "days_of_inventory", days).rows,
                            DaysMask(days, filters.max_inventory_days)))
    ELSE t
FilterDays(t, filters) ==
    IF filters.max_inventory_days # None /\ HasCol(t, "days_of_inventory")
    THEN Table(t.cols,
               MaskRows(t.rows,
                        DaysMask(ToNumericRobust(Col(t, "days_of_inventory"), Inf),
                                 filters.max_inventory_days)))
    ELSE t
ApplyFilters(df, filters) == FilterDays(FilterStock(df, filters), filters)

(* -------------------------- calculate_features ------------------------ *)
\* A margin clamped at 0.
ProfitMarginClamped(price, cogs) ==
    IF RGt(price, Zero) /\ RGt(price, cogs)
    THEN FillNa(RDiv(RSub(price, cogs), price), Zero) ELSE Zero
\* np.where(price > 0, (price - cogs) / price, 0), then fillna(0).
ProfitMargin(price, cogs) ==
    IF RGt(price, Zero) THEN FillNa(RDiv(RSub(price, cogs), price), Zero) ELSE Zero

\* Series.map(dict): the value of a key of the dict, NaN for anything else;
\* then fillna(0).
TierWeight(cell, brand_tier_map) ==
    FillNa(IF IsStr(cell) /\ cell.s \in DOMAIN brand_tier_map
           THEN brand_tier_map[cell.s] ELSE NaN, Zero)

CalculateFeatures(df, brand_tier_map) ==
    LET price == ToNumericRobust(Get(df, "price_usd"), Zero)
        cogs  == ToNumericRobust(Get(df, "cogs_usd"), Zero)
        n     == NRows(df)
        t1 == SetCol(df, "profit_margin",
                     [i \in 1..n |-> Num(ProfitMargin(price[i].q, cogs[i].q))])
        t2 == SetCol(t1, "sales_velocity",
                     ToNumericRobust(Get(t1, "volume_sold_last_month"), Zero))
        t3 == SetCol(t2, "engagement",
                     ToNumericRobust(Get(t2, "views_last_month"), Zero))
    IN  IF HasCol(t3, "brand_tier") /\ DOMAIN brand_tier_map # {}
        THEN SetCol(t3, "brand_tier_weight",
                    [i \in 1..n |-> Num(TierWeight(t3.rows[i]["brand_tier"], brand_tier_map))])
        ELSE SetScalar(t3, "brand_tier_weight", Num(Zero))

(* -------------------------- normalize_features ------------------------ *)
FeaturesToNormalize ==
    <<"sales_velocity", "profit_margin", "engagement", "brand_tier_weight">>

\* f'norm_{name}' for the names the model formats.
NormName(name) ==
    CASE name = "sales_velocity"    -> "norm_sales_velocity"
      [] name = "profit_margin"     -> "norm_profit_margin"
      [] name = "engagement"        -> "norm_engagement"
      [] name = "brand_tier_weight" -> "norm_brand_tier_weight"
      [] name = "brand_tier"        -> "norm_brand_tier"
      [] name = "popularity"        -> "norm_popularity"

RECURSIVE SeriesMin(_)
SeriesMin(s) ==
    IF Len(s) = 1 THEN s[1].q
    ELSE LET m == SeriesMin(SubSeq(s, 1, Len(s) - 1))
         IN  IF RLt(s[Len(s)].q, m) THEN s[Len(s)].q ELSE m
RECURSIVE SeriesMax(_)
SeriesMax(s) ==
    IF Len(s) = 1 THEN s[1].q
    ELSE LET m == SeriesMax(SubSeq(s, 1, Len(s) - 1))
         IN  IF RGt(s[Len(s)].q, m) THEN s[Len(s)].q ELSE m

\* A tie branch that keeps the tied value itself.
TiedValueRaw(max_v) == max_v
\* A tie branch that gives 0.0 whatever the tied value.
TiedValueZero(max_v) == Zero
\* Lines 96-97: every record tied at max_v gets 1.0 when max_v is not 0,
\* else 0.0.
TiedValue(max_v) == IF max_v # Zero THEN One ELSE Zero

\* One turn of the loop over features_to_normalize.
NormalizeFeature(t, feature) ==
    IF HasCol(t, feature) /\ NRows(t) > 0 THEN
        LET series == ToNumericRobust(Col(t, feature), Zero)
            min_v  == SeriesMin(series)
            max_v  == SeriesMax(series)
        IN  IF RGt(max_v, min_v)
            THEN SetCol(t, NormName(feature),
                        [i \in 1..NRows(t) |->
                            Num(RDiv(RSub(series[i].q, min_v), RSub(max_v, min_v)))])
            ELSE IF REq(max_v, min_v)
            THEN SetScalar(t, NormName(feature), Num(TiedValue(max_v)))
            ELSE SetScalar(t, NormName(feature), Num(Zero))
    ELSE SetScalar(t, NormName(feature), Num(Zero))

RECURSIVE NormalizeUpTo(_, _)
NormalizeUpTo(t, k) ==
    IF k = 0 THEN t
    ELSE NormalizeFeature(NormalizeUpTo(t, k - 1), FeaturesToNormalize[k])

NormalizeFeatures(df) == NormalizeUpTo(df, Len(FeaturesToNormalize))

(* --------------------------- calculate_scores ------------------------- *)
\* A lookup that forgets the brand_tier rename.
NormColNoRename(component) == NormName(component)
\* The normalized column a scoring weight reads.
NormCol(component) ==
    NormName(IF component = "brand_tier" THEN "brand_tier_weight" ELSE component)

\* One turn of the loop over scoring_weights.items(): an entry is
\* <<component, weight>>.
AddComponent(t, entry) ==
    IF HasCol(t, NormCol(entry[1])) THEN
        LET values == ToNumericRobust(Col(t, NormCol(entry[1])), Zero)
        IN  SetCol(t, "score",
                   [i \in 1..NRows(t) |->
                       Num(RAdd(t.rows[i]["score"].q, RMul(entry[2], values[i].q)))])
    ELSE t

RECURSIVE AddComponents(_, _, _)
AddComponents(t, weights, k) ==
    IF k = 0 THEN t
    ELSE AddComponent(AddComponents(t, weights, k - 1), weights[k])

CalculateScores(df, scoring_weights) ==
    AddComponents(SetScalar(df, "score", Num(Zero)), scoring_weights,
                  Len(scoring_weights))

(* ---------------------------- rank_products --------------------------- *)
\* df['score'] = self._to_numeric_robust(df.get('score', ...)): written
\* into the table rank_products was given.
\* A table without the column gets the empty series df.get falls back to,
\* which the assignment aligns on the index: NaN in every row.
CoerceScore(df) ==
    LET s == ToNumericRobust(Get(df, "score"), Zero)
    IN  SetCol(df, "score",
               [i \in 1..NRows(df) |-> IF i <= Len(s) THEN s[i] ELSE Missing])

\* A sort that puts the scores in ascending order.
SortOrdersAscending(scores) ==
    {p \in [1..Len(scores) -> 1..Len(scores)] :
        /\ \A i, j \in 1..Len(scores) : i # j => p[i] # p[j]
        /\ \A i, j \in 1..Len(scores) :
              i < j => RLe(scores[p[i]].q, scores[p[j]].q)}
\* sort_values('score', ascending=False) with pandas' default
\* kind='quicksort', which is not a stable sort: the indexer it computes is
\* some permutation that puts the scores in descending order, and which
\* one it is among tied scores depends on the numpy build and the length.
\* NaN scores go last (na_position='last'), in their original order.
SortOrders(scores) ==
    {p \in [1..Len(scores) -> 1..Len(scores)] :
        /\ \A i, j \in 1..Len(scores) : i # j => p[i] # p[j]
        /\ \A i, j \in 1..Len(scores) :
              i < j => \/ /\ IsNaN(scores[p[j]].q)
                          /\ IsNaN(scores[p[i]].q) => p[i] < p[j]
                       \/ RGe(scores[p[i]].q, scores[p[j]].q)}

\* Ranks counted from 0.
RankColumnFromZero(n) == [i \in 1..n |-> Num(I(i - 1))]
\* .reset_index(drop=True), then ranked['rank'] = range(1, len(ranked) + 1)
RankColumn(n) == [i \in 1..n |-> Num(I(i))]
Sorted(df, p) ==
    SetCol(Table(df.cols, [i \in 1..NRows(df) |-> df.rows[p[i]]]),
           "rank", RankColumn(NRows(df)))

\* DataFrame.head(n): the first n rows, or all but the last -n when n < 0.
HeadRows(t, n) ==
    Table(t.cols,
          IF n >= 0 THEN SubSeq(t.rows, 1, Min(n, NRows(t)))
          ELSE SubSeq(t.rows, 1, Max(0, NRows(t) + n)))

\* A ranker that truncates before it sorts: the first n rows of the table
\* it was given, in the order the sort gives them.
RankProductsTruncateFirst(df, p, n) ==
    LET kept == HeadRows(df, n)
    IN  Sorted(kept, SelectSeq(p, LAMBDA i : i <= NRows(kept)))
RankProducts(df, p, n) == HeadRows(Sorted(df, p), n)

(* ------------------------------- process ------------------------------ *)
OutCols == <<"Product Name", "Brand", "Price (USD)", "score", "rank">>

\* An empty result without the output columns: pd.DataFrame().
EmptyOutNoColumns == Table(<<>>, <<>>)
\* pd.DataFrame(columns=out_cols)
EmptyOut == Table(OutCols, <<>>)

\* final_output_df[name] = series: the first column assigned to the empty
\* frame brings its index; a later one is aligned on it.
Assign(t, name, series) ==
    IF Len(t.cols) = 0
    THEN Table(<<name>>, [i \in 1..Len(series) |-> [k \in {name} |-> series[i]]])
    ELSE SetCol(t, name,
                [i \in 1..NRows(t) |-> IF i <= Len(series) THEN series[i] ELSE Missing])

\* df[cols]: the named columns, in that order.
SelectCols(t, cols) ==
    Table(cols, [i \in 1..NRows(t) |->
                    [k \in {cols[j] : j \in 1..Len(cols)} |-> t.rows[i][k]]])

\* An output that keeps every internal column.
FinalOutputAllColumns(rk) == rk
FinalOutput(rk) ==
    LET f1 == Assign(Table(<<>>, <<>>), "Product Name", Get(rk, "Product Name"))
        f2 == Assign(f1, "Brand", Get(rk, "Brand"))
        f3 == Assign(f2, "Price (USD)", Get(rk, "price_usd"))
        f4 == Assign(f3, "score", Get(rk, "score"))
        f5 == Assign(f4, "rank", Get(rk, "rank"))
    IN  SelectCols(f5, OutCols)

\* An order that normalizes before it filters.
StageAfterNormalizeFirst(stage) ==
    CASE stage = "preprocess" -> "features"
      [] stage = "features"   -> "normalize"
      [] stage = "normalize"  -> "filter"
      [] stage = "filter"     -> "score"
      [] stage = "score"      -> "rank"
\* The order in which process runs the stages on x.
StageAfter(stage) ==
    CASE stage = "preprocess" -> "features"
      [] stage = "features"   -> "filter"
      [] stage = "filter"     -> "normalize"
      [] stage = "normalize"  -> "score"
      [] stage = "score"      -> "rank"

(* ------------------------------- inputs ------------------------------- *)
RawCols ==
    <<"Product Name", "Brand", "Brand Tier", "Price (USD)", "COGS (USD)",
      "Days of Inventory", "Units in Stock", "Views Last Month",
      "Volume Sold Last Month">>

RawRow(name, brand, tier, price, cogs, days, units, views, sold) ==
    [k \in {RawCols[j] : j \in 1..Len(RawCols)} |->
        CASE k = "Product Name"           -> name
          [] k = "Brand"                  -> brand
          [] k = "Brand Tier"             -> tier
          [] k = "Price (USD)"            -> price
          [] k = "COGS (USD)"             -> cogs
          [] k = "Days of Inventory"      -> days
          [] k = "Units in Stock"         -> units
          [] k = "Views Last Month"       -> views
          [] k = "Volume Sold Last Month" -> sold]

N(k) == Num(I(k))

\* The four rows of tests/test_data_processing.py's sample CSV.
TestProduct1 == RawRow(Str(<<"T", "1">>), Str(<<"B", "A">>), Str(<<"A">>),
                       N(100), N(50), N(30), N(100), N(1000), N(100))
TestProduct2 == RawRow(Str(<<"T", "2">>), Str(<<"B", "B">>), Str(<<"B">>),
                       N(80), N(60), N(60), N(50), N(500), N(50))
LowStock     == RawRow(Str(<<"L", "S">>), Str(<<"B", "C">>), Str(<<"C">>),
                       N(50), N(25), N(20), N(5), N(200), N(20))
OldStock     == RawRow(Str(<<"O", "S">>), Str(<<"B", "D">>), Str(<<"A">>),
                       N(120), N(60), N(100), N(30), N(300), N(30))
\* Rows with the values the stages treat specially: a missing and an
\* unparseable days_of_inventory, a price written "1,000", a zero price,
\* a cost above the price, an unmapped and a missing tier, and values on
\* the filter thresholds.
NoDays       == RawRow(Str(<<"N", "D">>), Str(<<"B", "E">>), Str(<<"Z">>),
                       Str(<<"1", ",", "0", "0", "0">>), N(1200), Missing,
                       N(10), N(0), N(100))
BadDays      == RawRow(Str(<<"U", "D">>), None, None,
                       N(0), N(10), Str(<<"n", "/", "a">>),
                       N(5), Missing, N(0))
Threshold    == RawRow(Str(<<"T", "H">>), Str(<<"B", "B">>), Str(<<"B">>),
                       N(50), N(80), N(90), N(10), N(300), N(50))

\* The rows input tables are drawn from (TestProduct1, TestProduct2 and
\* LowStock enter with the integration test's table).
Catalog == {OldStock, NoDays, BadDays, Threshold}

RECURSIVE SeqsUpTo(_, _)
SeqsUpTo(S, n) ==
    IF n = 0 THEN {<<>>}
    ELSE LET shorter == SeqsUpTo(S, n - 1)
         IN  shorter \cup {Append(q, e) : q \in {r \in shorter : Len(r) = n - 1}, e \in S}

\* The table of the integration test (lines 24-28 of the test file).
ScenarioRows == <<TestProduct1, TestProduct2, LowStock, OldStock>>

\* df.drop(columns=...): an input that lacks some of the expected columns.
DropCols(t, dropped) ==
    LET keep == SelectSeq(t.cols, LAMBDA c : c \notin dropped)
    IN  SelectCols(t, keep)

Dropped == {"Days of Inventory", "Brand Tier", "Brand", "Price (USD)"}

\* Tables with every expected column, and shorter ones that lack some.
Inputs ==
    {Table(RawCols, rows) : rows \in SeqsUpTo(Catalog, MaxLen) \cup {ScenarioRows}}
    \cup {DropCols(Table(RawCols, rows), Dropped) : rows \in SeqsUpTo(Catalog, MaxLen - 1)}

\* weights_config: config/weights.yaml as the tests assume it (min_stock 10,
\* max_inventory_days 90), the two-weight configuration, the defaults
\* settings.py falls back to, and one with a weight for an unknown feature.
Filters(min_stock, max_days) ==
    [min_stock |-> min_stock, max_inventory_days |-> max_days]
Tiers == (<<"A">> :> One) @@ (<<"B">> :> Q(4, 5)) @@ (<<"C">> :> Q(1, 2))
NoTiers == [k \in {} |-> Zero]
Configs ==
    { [scoring_weights |-> << <<"sales_velocity", Q(2, 5)>>, <<"profit_margin", Q(3, 10)>>,
                              <<"engagement", Q(1, 5)>>, <<"brand_tier", Q(1, 10)>> >>,
       brand_tier_weights |-> Tiers, filters |-> Filters(N(10), N(90)),
       top_n_products |-> 10],
      [scoring_weights |-> << <<"sales_velocity", Q(1, 2)>>, <<"profit_margin", Q(1, 2)>> >>,
       brand_tier_weights |-> NoTiers, filters |-> Filters(N(10), None),
       top_n_products |-> 10],
      [scoring_weights |-> <<>>,
       brand_tier_weights |-> NoTiers, filters |-> Filters(None, None),
       top_n_products |-> 10],
      [scoring_weights |-> << <<"popularity", Q(1, 2)>>, <<"brand_tier", Q(1, 2)>> >>,
       brand_tier_weights |-> Tiers, filters |-> Filters(None, N(90)),
       top_n_products |-> 2] }

\* The top_n argument of process: None, or an int (the HTTP layer passes
\* the query parameter on unchecked, so it may be negative; the
\* integration test asks for 5).
TopNs == {None} \cup {N(k) : k \in {0 - 1, 0, 1, 2, 5}}

(* ---------------------------- state machine --------------------------- *)
VARIABLES
    cfg,      \* the weights_config the ProductScorer was constructed with
    df,       \* the table process was called with
    top_n,    \* the top_n argument of process
    pc,       \* the stage process runs next; "done" once it has returned
    x,        \* process's local x
    order,    \* the indexer sort_values computed inside rank_products
    ranked,   \* process's local ranked
    out,      \* the table process returned
    fs,       \* the data files: settings.RAW_DATA_PATH, PROCESSED_DATA_PATH
    app,      \* the API module's globals scorer and data_processor
    req,      \* the call or HTTP request being served
    calls,    \* the DataProcessor methods called so far, with arguments
    resp      \* how the call ended: a return, an exception, an HTTP status

vars == <<cfg, df, top_n, pc, x, order, ranked, out, fs, app, req, calls, resp>>

\* What ProductScorer neither reads nor writes: files, globals, requests.
io == <<fs, app, req, calls, resp>>

NoTable == Table(<<>>, <<>>)

\* The scorer used on its own: no file, no request.
NoService ==
    /\ fs = [raw |-> [exists |-> FALSE], processed |-> [exists |-> FALSE],
             writable |-> FALSE]
    /\ app = [scorer |-> TRUE, data_processor |-> FALSE]
    /\ req = [op |-> "none"]
    /\ calls = <<>>
    /\ resp = [kind |-> "none"]

\* effective_top_n = top_n if top_n is not None else self.default_top_n
EffectiveTopN == IF top_n # None THEN top_n.q[1] ELSE cfg.top_n_products

Init ==
    /\ cfg \in Configs
    /\ df \in Inputs
    /\ top_n \in TopNs
    /\ pc = "start"
    /\ x = NoTable
    /\ order = <<>>
    /\ ranked = NoTable
    /\ out = NoTable
    /\ NoService

\* Lines 119-125: an empty input returns the empty output at once.
Begin ==
    /\ pc = "start"
    /\ IF Empty(df)
       THEN pc' = "done" /\ out' = EmptyOut /\ x' = x
       ELSE pc' = "preprocess" /\ out' = out /\ x' = df
    /\ UNCHANGED <<cfg, df, top_n, order, ranked>>
    /\ UNCHANGED io

Preprocess ==
    /\ pc = "preprocess"
    /\ x' = PreprocessData(x)
    /\ pc' = StageAfter("preprocess")
    /\ UNCHANGED <<cfg, df, top_n, order, ranked, out>>
    /\ UNCHANGED io

Features ==
    /\ pc = "features"
    /\ x' = CalculateFeatures(x, cfg.brand_tier_weights)
    /\ pc' = StageAfter("features")
    /\ UNCHANGED <<cfg, df, top_n, order, ranked, out>>
    /\ UNCHANGED io

\* Lines 129-133: a table the filters empty returns the empty output.
Filter ==
    /\ pc = "filter"
    /\ x' = ApplyFilters(x, cfg.filters)
    /\ IF Empty(x')
       THEN pc' = "done" /\ out' = EmptyOut
       ELSE pc' = StageAfter("filter") /\ out' = out
    /\ UNCHANGED <<cfg, df, top_n, order, ranked>>
    /\ UNCHANGED io

Normalize ==
    /\ pc = "normalize"
    /\ x' = NormalizeFeatures(x)
    /\ pc' = StageAfter("normalize")
    /\ UNCHANGED <<cfg, df, top_n, order, ranked, out>>
    /\ UNCHANGED io

Score ==
    /\ pc = "score"
    /\ x' = CalculateScores(x, cfg.scoring_weights)
    /\ pc' = StageAfter("score")
    /\ UNCHANGED <<cfg, df, top_n, order, ranked, out>>
    /\ UNCHANGED io

Rank ==
    /\ pc = "rank"
    /\ x' = CoerceScore(x)
    /\ order' \in SortOrders(Col(x', "score"))
    /\ ranked' = RankProducts(x', order', EffectiveTopN)
    /\ pc' = "project"
    /\ UNCHANGED <<cfg, df, top_n, out>>
    /\ UNCHANGED io

\* Lines 140-149.
Project ==
    /\ pc = "project"
    /\ out' = FinalOutput(ranked)
    /\ pc' = "done"
    /\ UNCHANGED <<cfg, df, top_n, x, order, ranked>>
    /\ UNCHANGED io

Next ==
    \/ Begin
    \/ Preprocess
    \/ Features
    \/ Filter
    \/ Normalize
    \/ Score
    \/ Rank
    \/ Project

Spec == Init /\ [][Next]_vars

(* ----------------------- process as a relation ------------------------ *)
StageResult(stage, t, c) ==
    CASE stage = "preprocess" -> PreprocessData(t)
      [] stage = "features"   -> CalculateFeatures(t, c.brand_tier_weights)
      [] stage = "filter"     -> ApplyFilters(t, c.filters)
      [] stage = "normalize"  -> NormalizeFeatures(t)
      [] stage = "score"      -> CalculateScores(t, c.scoring_weights)

\* x as process hands it to rank_products, or the empty table the filters
\* left: the stages from the given one on, in process's order.
RECURSIVE RunFrom(_, _, _)
RunFrom(stage, t, c) ==
    IF stage = "rank" THEN t
    ELSE LET y == StageResult(stage, t, c)
         IN  IF Empty(y) /\ stage = "filter" THEN y
             ELSE RunFrom(StageAfter(stage), y, c)

\* The table process(t, top_n = n) returns under the configuration c when
\* the sort inside rank_products computes the indexer p.
ProcessWith(t, c, n, p) ==
    IF Empty(t) THEN EmptyOut
    ELSE LET s == RunFrom("preprocess", t, c)
         IN  IF Empty(s) THEN EmptyOut
             ELSE FinalOutput(RankProducts(CoerceScore(s), p, n))

\* The indexers the sort may compute in that call.
ProcessOrders(t, c) ==
    IF Empty(t) THEN {<<>>}
    ELSE LET s == RunFrom("preprocess", t, c)
         IN  IF Empty(s) THEN {<<>>}
             ELSE SortOrders(Col(CoerceScore(s), "score"))

(* ----------------------- the stages on their own ---------------------- *)
\* Each stage is a public method: here one of them is called once, on a
\* table of the kind process hands it (df is the argument as it was when
\* the call was made, x the same table object after the call, out the
\* table returned).
Stages ==
    {"preprocess_data", "calculate_features", "apply_filters",
     "normalize_features", "calculate_scores", "rank_products"}

StageTables == {t \in Inputs : NRows(t) <= 2} \cup {Table(RawCols, ScenarioRows)}

\* A canonical table whose days_of_inventory holds the raw values as text
\* (no preprocess_data conversion): apply_filters converts them itself,
\* with a default of +inf.
TextDays(t) ==
    IF HasCol(t, "Days of Inventory")
    THEN SetCol(t, "days_of_inventory",
                [i \in 1..NRows(t) |-> Str(AsTypeStr(t.rows[i]["Days of Inventory"]))])
    ELSE t

\* A scored table whose first score is NaN.
NaNScore(t) ==
    IF NRows(t) > 0 /\ HasCol(t, "score")
    THEN Table(t.cols, [i \in 1..NRows(t) |->
                           IF i = 1 THEN [t.rows[i] EXCEPT !["score"] = Missing]
                           ELSE t.rows[i]])
    ELSE t

\* The tables a stage is called with: what lines 127-137 pass it for the
\* raw table t, and for apply_filters and rank_products also tables with
\* the values their own conversions are there for.
ArgsFor(stage, t, c) ==
    LET canonical  == PreprocessData(t)
        featured   == CalculateFeatures(canonical, c.brand_tier_weights)
        filtered   == ApplyFilters(featured, c.filters)
        normalized == NormalizeFeatures(filtered)
        scored     == CalculateScores(normalized, c.scoring_weights)
    IN  CASE stage = "preprocess_data"    -> {t}
          [] stage = "calculate_features" -> {canonical}
          [] stage = "apply_filters"      -> {featured, TextDays(featured)}
          [] stage = "normalize_features" -> {filtered}
          [] stage = "calculate_scores"   -> {normalized}
          [] stage = "rank_products"      -> {scored, NaNScore(scored), normalized}

Call(stage)     == <<"call", stage>>
Returned(stage) == <<"returned", stage>>

StageInit ==
    /\ cfg \in Configs
    /\ \E stage \in Stages, t \in StageTables :
          /\ pc = Call(stage)
          /\ df \in ArgsFor(stage, t, cfg)
          /\ top_n \in IF stage = "rank_products" THEN {N(1), N(5)} ELSE {None}
    /\ x = df
    /\ order = <<>>
    /\ ranked = NoTable
    /\ out = NoTable
    /\ NoService

\* Lines 32-53; processed_df = df.copy() leaves the argument as it was.
CallPreprocessData ==
    /\ pc = Call("preprocess_data")
    /\ out' = PreprocessData(x)
    /\ pc' = Returned("preprocess_data")
    /\ UNCHANGED <<cfg, df, top_n, x, order, ranked>>
    /\ UNCHANGED io

\* Lines 71-85; f_df = df.copy().
CallCalculateFeatures ==
    /\ pc = Call("calculate_features")
    /\ out' = CalculateFeatures(x, cfg.brand_tier_weights)
    /\ pc' = Returned("calculate_features")
    /\ UNCHANGED <<cfg, df, top_n, x, order, ranked>>
    /\ UNCHANGED io

\* Lines 55-69; filtered_df = df.copy().
CallApplyFilters ==
    /\ pc = Call("apply_filters")
    /\ out' = ApplyFilters(x, cfg.filters)
    /\ pc' = Returned("apply_filters")
    /\ UNCHANGED <<cfg, df, top_n, x, order, ranked>>
    /\ UNCHANGED io

\* Lines 87-99; norm_df = df.copy().
CallNormalizeFeatures ==
    /\ pc = Call("normalize_features")
    /\ out' = NormalizeFeatures(x)
    /\ pc' = Returned("normalize_features")
    /\ UNCHANGED <<cfg, df, top_n, x, order, ranked>>
    /\ UNCHANGED io

\* Lines 101-110; score_df = df.copy().
CallCalculateScores ==
    /\ pc = Call("calculate_scores")
    /\ out' = CalculateScores(x, cfg.scoring_weights)
    /\ pc' = Returned("calculate_scores")
    /\ UNCHANGED <<cfg, df, top_n, x, order, ranked>>
    /\ UNCHANGED io

\* Lines 112-116: no copy; line 113 assigns the score column of the table
\* it was given, and sort_values returns a new table.
CallRankProducts ==
    /\ pc = Call("rank_products")
    /\ x' = CoerceScore(x)
    /\ order' \in SortOrders(Col(x', "score"))
    /\ out' = RankProducts(x', order', top_n.q[1])
    /\ pc' = Returned("rank_products")
    /\ UNCHANGED <<cfg, df, top_n, ranked>>
    /\ UNCHANGED io

StageNext ==
    \/ CallPreprocessData
    \/ CallCalculateFeatures
    \/ CallApplyFilters
    \/ CallNormalizeFeatures
    \/ CallCalculateScores
    \/ CallRankProducts

StageSpec == StageInit /\ [][StageNext]_vars

(* -------------------------------- files ------------------------------- *)
\* A CSV file is its header line (the column names) and its data lines,
\* each line the sequence of its fields and each field a string; a blank
\* line has no field, and a file of no bytes has no header.
Absent == [exists |-> FALSE]
CsvFile(header, data) == [exists |-> TRUE, header |-> header, data |-> data]

\* The texts read_csv takes for a missing value (those that occur here).
NaStrings == {<<>>, <<"n", "a", "n">>, <<"N", "a", "N">>, <<"n", "/", "a">>}
IsNa(field) == field \in NaStrings

\* skip_blank_lines=True
DataLines(file) == SelectSeq(file.data, LAMBDA l : Len(l) > 0)

\* The number of fields read_csv expects in a line: that of the header, or
\* of the first data line when it is longer (its leading fields are then
\* the index).
Width(file) ==
    LET d == DataLines(file)
    IN  IF Len(d) > 0 THEN Max(Len(file.header), Len(d[1])) ELSE Len(file.header)

\* pd.read_csv raises EmptyDataError for a file with no column to parse and
\* ParserError for a line with more fields than expected.
ReadCsvRaises(file) ==
    \/ Len(file.header) = 0
    \/ \E i \in 1..Len(DataLines(file)) : Len(DataLines(file)[i]) > Width(file)

\* A line that is too short is filled with missing values.
FieldOf(line, k) == IF k <= Len(line) THEN line[k] ELSE <<>>

\* The dtype read_csv infers: a column whose present fields all parse as
\* numbers is numeric, any other keeps its fields as strings.
InferColumn(fields) ==
    IF \A i \in 1..Len(fields) : IsNa(fields[i]) \/ ~IsNaN(ToNumericCoerce(fields[i]))
    THEN [i \in 1..Len(fields) |->
             IF IsNa(fields[i]) THEN Missing ELSE Num(ToNumericCoerce(fields[i]))]
    ELSE [i \in 1..Len(fields) |->
             IF IsNa(fields[i]) THEN Missing ELSE Str(fields[i])]

\* pd.read_csv(path) of a file it does not raise on (column names unique).
ReadCsv(file) ==
    LET d     == DataLines(file)
        k     == Width(file) - Len(file.header)
        names == {file.header[c] : c \in 1..Len(file.header)}
        column == [c \in 1..Len(file.header) |->
                      InferColumn([i \in 1..Len(d) |-> FieldOf(d[i], k + c)])]
        at(name) == CHOOSE c \in 1..Len(file.header) : file.header[c] = name
    IN  Table(file.header,
              [i \in 1..Len(d) |-> [name \in names |-> column[at(name)][i]]])

\* k characters "0" in front of the digits s, up to the length k.
RECURSIVE PadZeros(_, _)
PadZeros(s, k) == IF Len(s) >= k THEN s ELSE PadZeros(<<"0">> \o s, k)

\* The text to_csv writes for a number: an integer as its digits, any other
\* value as a decimal.  (repr keeps up to 17 significant digits; here an
\* expansion is cut after 6 decimals.  A float such as 80.0 is written
\* here as 80, which reads back as the same number.)
NumToStr(q) ==
    LET n  == Abs(q[1])
        d  == q[2]
        ks == {j \in 0..6 : Pow10(j) % d = 0}
        k  == IF ks = {} THEN 6 ELSE CHOOSE j \in ks : \A i \in ks : j <= i
        ip == n \div d
        fp == ((n % d) * Pow10(k)) \div d
    IN  (IF q[1] < 0 THEN <<"-">> ELSE <<>>) \o IntToStr(ip)
            \o (IF k = 0 THEN <<>> ELSE <<".">> \o PadZeros(IntToStr(fp), k))

\* na_rep='': None and NaN are written as the empty field.
CellToCsv(c) ==
    IF IsStr(c) THEN c.s
    ELSE IF c.t = "none" THEN <<>>
    ELSE IF IsNaN(c.q) THEN <<>>
    ELSE NumToStr(c.q)

\* df.to_csv(path, index=False)
ToCsv(t) ==
    CsvFile(t.cols,
            [i \in 1..NRows(t) |->
                [c \in 1..Len(t.cols) |-> CellToCsv(t.rows[i][t.cols[c]])]])

(* --------------------------- DataProcessor ---------------------------- *)
Raised(type) == [kind |-> "raised", type |-> type]
Returns(t)   == [kind |-> "returned", table |-> t]

\* A loader that returns an empty table for a file that is not there.
LoadDataSwallow(file) ==
    IF ~file.exists \/ ReadCsvRaises(file) THEN Returns(NoTable)
    ELSE Returns(ReadCsv(file))
\* load_data, lines 21-33: FileNotFoundError for a path that does not
\* exist; the table read_csv returns; pd.DataFrame() when read_csv raises.
LoadData(file) ==
    IF ~file.exists THEN Raised("FileNotFoundError")
    ELSE IF ReadCsvRaises(file) THEN Returns(NoTable)
    ELSE Returns(ReadCsv(file))

\* process_and_score_data, line 36: the default when top_n is None.
PipelineTopN(n, c) == IF n # None THEN n.q[1] ELSE c.top_n_products

\* save_processed_data, lines 40-47: the table written to the processed
\* file; a failure to write is logged, not raised.
SaveProcessedData(files, t) ==
    IF files.writable THEN [files EXCEPT !.processed = ToCsv(t)] ELSE files

\* A pipeline that saves whatever it processed.
ShouldSaveAlways(processed_df) == TRUE
\* run_full_pipeline, line 58: if not processed_df.empty
ShouldSave(processed_df) == ~Empty(processed_df)

CallOf(fn, args) == [fn |-> fn, args |-> args]

(* ------------------------------ the API ------------------------------- *)
HttpError(status) == [kind |-> "raised", type |-> "HTTPException", status |-> status]
ReturnsBody(body) == [kind |-> "returned", body |-> body]
Response(status, body) == [kind |-> "http", status |-> status, body |-> body]

\* The value pydantic reads for a field: the entry under its alias, or
\* under its name (populate_by_name), if the record has one.
Field(r, alias, name) ==
    IF alias \in DOMAIN r THEN r[alias]
    ELSE IF name \in DOMAIN r THEN r[name]
    ELSE [t |-> "absent"]

\* pydantic's validation of a str, a float and an int field: a str is a
\* str; a float is a number (NaN allowed) or a string that parses; an int
\* is a number with an integral value or a string of digits.
IsValidStr(c)   == c.t = "str"
IsValidFloat(c) == c.t = "num" \/ (c.t = "str" /\ ~IsNaN(ToNumericCoerce(c.s)))
IsValidInt(c)   ==
    \/ c.t = "num" /\ IsFinite(c.q) /\ c.q[2] = 1
    \/ c.t = "str" /\ Len(c.s) > 0 /\ AllDigits(c.s)

\* ProductRankedResponse.model_validate(record) succeeds (schemas.py).
ValidRanked(r) ==
    /\ IsValidStr(Field(r, "Product Name", "product_name"))
    /\ IsValidStr(Field(r, "Brand", "brand"))
    /\ IsValidFloat(Field(r, "Price (USD)", "price"))
    /\ IsValidFloat(Field(r, "score", "score"))
    /\ IsValidInt(Field(r, "rank", "rank"))

\* ProductDetailResponse.model_validate(product_dict) succeeds.
ValidDetail(r) ==
    /\ IsValidStr(Field(r, "Product Name", "product_name"))
    /\ IsValidStr(Field(r, "Brand", "brand"))
    /\ IsValidStr(Field(r, "Brand Tier", "brand_tier"))
    /\ IsValidFloat(Field(r, "Price (USD)", "price_usd"))
    /\ IsValidFloat(Field(r, "COGS (USD)", "cogs_usd"))
    /\ IsValidInt(Field(r, "Units in Stock", "units_in_stock"))
    /\ IsValidInt(Field(r, "Days of Inventory", "days_of_inventory"))
    /\ IsValidInt(Field(r, "Views Last Month", "views_last_month"))
    /\ IsValidInt(Field(r, "Volume Sold Last Month", "volume_sold_last_month"))

\* get_ranked_products, lines 56-61: the processed file as it is served.
ProcessedTable(file, n) ==
    LET t == ReadCsv(file)
        r == IF HasCol(t, "rank") THEN t
             ELSE SetCol(t, "rank", [i \in 1..NRows(t) |-> N(i)])
    IN  IF n < NRows(r) THEN HeadRows(r, n) ELSE r

\* Lines 73-94: no product for an empty table; the records that validate;
\* HTTPException(500) when there are records and none validates.
RankedResponses(ranked_df) ==
    IF Empty(ranked_df) THEN ReturnsBody(<<>>)
    ELSE LET ok == SelectSeq(ranked_df.rows, ValidRanked)
         IN  IF Len(ok) = 0 THEN HttpError(500) ELSE ReturnsBody(ok)

\* Lines 53-61 and 73-94 of get_ranked_products when the processed file
\* exists: what the try block returns or raises.
ServeProcessed(file, n) ==
    IF ReadCsvRaises(file) THEN Raised("ParserError")
    ELSE RankedResponses(ProcessedTable(file, n))

\* The try block of get_product_details, lines 111-128.
ProductDetailsBody(files, name) ==
    LET loaded == LoadData(files.raw)
    IN  IF loaded.kind = "raised" THEN loaded
        ELSE IF Empty(loaded.table) THEN HttpError(404)
        ELSE IF ~HasCol(loaded.table, "Product Name") THEN Raised("KeyError")
        ELSE LET found == SelectSeq(loaded.table.rows,
                                    LAMBDA r : IsStr(r["Product Name"])
                                               /\ r["Product Name"].s = name)
             IN  IF Len(found) = 0 THEN HttpError(404)
                 ELSE IF ValidDetail(found[1]) THEN ReturnsBody(<<found[1]>>)
                 ELSE HttpError(500)

\* The except clauses of both endpoints (lines 97-102, 131-136): a
\* FileNotFoundError becomes a 404; any other Exception, an HTTPException
\* raised inside the try block included, becomes a 500.
ExceptClauses(outcome) ==
    IF outcome.kind = "returned" THEN Response(200, outcome.body)
    ELSE IF outcome.type = "FileNotFoundError" THEN Response(404, <<>>)
    ELSE Response(500, <<>>)

(* ------------------- the pipeline and the endpoints ------------------- *)
\* Tables the raw data file may hold: one-row tables, the integration
\* test's table, and one whose rows need cleaning.
ServiceTables ==
    {t \in Inputs : NRows(t) = 1}
    \cup {Table(RawCols, ScenarioRows), Table(RawCols, <<NoDays, Threshold>>)}

\* The integration test's file with a line too many fields long, which
\* read_csv refuses, and with an empty line and a line cut short.
TooManyFields(file) ==
    [file EXCEPT !.data = [i \in 1..Len(@) |->
        IF i = Len(@) THEN Append(@[i], <<"x">>) ELSE @[i]]]
BlankAndShortLine(file) ==
    [file EXCEPT !.data = <<@[1], <<>>, SubSeq(@[2], 1, 3)>> \o SubSeq(@, 3, Len(@))]

\* settings.RAW_DATA_PATH: absent, zero bytes long, a header and no data
\* line, a table as to_csv writes it, or a damaged file.
RawFiles ==
    {Absent, CsvFile(<<>>, <<>>), ToCsv(Table(RawCols, <<>>))}
    \cup {ToCsv(t) : t \in ServiceTables}
    \cup {TooManyFields(ToCsv(Table(RawCols, ScenarioRows))),
          BlankAndShortLine(ToCsv(Table(RawCols, ScenarioRows)))}

\* Tables an earlier run of the pipeline saved.
SavedOutputs ==
    LET c == CHOOSE w \in Configs : w.top_n_products = 2
    IN  UNION {{ProcessWith(t, c, 5, p) : p \in ProcessOrders(t, c)} :
               t \in {Table(RawCols, ScenarioRows), Table(RawCols, <<BadDays>>)}}

\* settings.PROCESSED_DATA_PATH: absent, zero bytes long, a saved output,
\* or one saved without its rank column.
ProcessedFiles ==
    {Absent, CsvFile(<<>>, <<>>)}
    \cup {ToCsv(o) : o \in SavedOutputs}
    \cup {ToCsv(DropCols(o, {"rank"})) : o \in SavedOutputs}

\* DataProcessor's methods called directly, and the two GET requests.
DirectCalls ==
    {[op |-> "load_data"]}
    \cup {[op |-> "run_full_pipeline", top_n |-> n] : n \in {None, N(1)}}
HttpRequests ==
    {[op |-> "get_ranked_products", top_n |-> n] : n \in {10, 1}}
    \cup {[op |-> "get_product_details", product_name |-> name] :
          name \in {<<"T", "1">>, <<"U", "D">>, <<"X", "X">>}}

\* The module globals after load_resources (lines 33-44), which leaves
\* both None when a constructor raised, and before it ran.
Apps ==
    {[scorer |-> TRUE, data_processor |-> TRUE],
     [scorer |-> FALSE, data_processor |-> FALSE]}

ServiceInit ==
    /\ cfg \in Configs
    /\ \E raw \in RawFiles, processed \in ProcessedFiles, writable \in BOOLEAN :
          fs = [raw |-> raw, processed |-> processed, writable |-> writable]
    /\ \/ req \in DirectCalls /\ app = [scorer |-> TRUE, data_processor |-> TRUE]
       \/ req \in HttpRequests /\ app \in Apps /\ fs.writable
    /\ (req.op # "run_full_pipeline" => fs.writable)
    /\ calls = <<>>
    /\ resp = [kind |-> "none"]
    /\ pc = "request"
    /\ df = NoTable
    /\ top_n = None
    /\ x = NoTable
    /\ order = <<>>
    /\ ranked = NoTable
    /\ out = NoTable

\* data_processor.load_data() called on its own.
CallLoadData ==
    /\ pc = "request" /\ req.op = "load_data"
    /\ calls' = Append(calls, CallOf("load_data", <<>>))
    /\ resp' = LoadData(fs.raw)
    /\ out' = IF resp'.kind = "returned" THEN resp'.table ELSE out
    /\ pc' = "finished"
    /\ UNCHANGED <<cfg, df, top_n, x, order, ranked, fs, app, req>>

\* run_full_pipeline, lines 51-55: load; an empty table ends the run.
PipelineLoad ==
    /\ pc = "request" /\ req.op = "run_full_pipeline"
    /\ calls' = Append(calls, CallOf("load_data", <<>>))
    /\ \E loaded \in {LoadData(fs.raw)} :
          IF loaded.kind = "raised"
          THEN resp' = loaded /\ pc' = "finished" /\ UNCHANGED <<df, out>>
          ELSE /\ df' = loaded.table
               /\ IF Empty(loaded.table)
                  THEN resp' = Returns(NoTable) /\ out' = NoTable /\ pc' = "finished"
                  ELSE pc' = "process_and_score_data" /\ UNCHANGED <<resp, out>>
    /\ UNCHANGED <<cfg, top_n, x, order, ranked, fs, app, req>>

\* Line 57 and process_and_score_data, lines 35-38: scorer.process is
\* entered with the loaded table and the effective top_n.
PipelineProcess ==
    /\ pc = "process_and_score_data"
    /\ calls' = Append(calls, CallOf("process_and_score_data", <<df, req.top_n>>))
    /\ top_n' = N(PipelineTopN(req.top_n, cfg))
    /\ pc' = "start"
    /\ UNCHANGED <<cfg, df, x, order, ranked, out, fs, app, req, resp>>

\* Lines 58-64, once process has returned out: save what is worth saving
\* and return processed_df.
PipelineSave ==
    /\ pc = "done" /\ req.op = "run_full_pipeline"
    /\ IF ShouldSave(out)
       THEN /\ calls' = Append(calls, CallOf("save_processed_data", <<out>>))
            /\ fs' = SaveProcessedData(fs, out)
       ELSE UNCHANGED <<calls, fs>>
    /\ resp' = Returns(out)
    /\ pc' = "finished"
    /\ UNCHANGED <<cfg, df, top_n, x, order, ranked, out, app, req>>

\* GET /ranked-products/?top_n=..., lines 46-71: the response, or
\* scorer.process entered with the raw table when there is no processed
\* file.
GetRankedProducts ==
    /\ pc = "request" /\ req.op = "get_ranked_products"
    /\ IF ~app.scorer \/ ~app.data_processor
       THEN /\ resp' = Response(503, <<>>) /\ pc' = "finished"
            /\ UNCHANGED <<calls, df, top_n>>
       ELSE IF fs.processed.exists
       THEN /\ resp' = ExceptClauses(ServeProcessed(fs.processed, req.top_n))
            /\ pc' = "finished"
            /\ UNCHANGED <<calls, df, top_n>>
       ELSE IF ~fs.raw.exists
       THEN /\ resp' = ExceptClauses(HttpError(404)) /\ pc' = "finished"
            /\ UNCHANGED <<calls, df, top_n>>
       ELSE /\ calls' = Append(calls, CallOf("load_data", <<>>))
            /\ \E raw_df \in {LoadData(fs.raw).table} :
                  /\ df' = raw_df
                  /\ IF Empty(raw_df)
                     THEN /\ resp' = ExceptClauses(ReturnsBody(<<>>))
                          /\ pc' = "finished" /\ top_n' = top_n
                     ELSE /\ top_n' = N(req.top_n) /\ pc' = "start"
                          /\ resp' = resp
    /\ UNCHANGED <<cfg, x, order, ranked, out, fs, app, req>>

\* Lines 73-102, once process has returned out.
RankedRespond ==
    /\ pc = "done" /\ req.op = "get_ranked_products"
    /\ resp' = ExceptClauses(RankedResponses(out))
    /\ pc' = "finished"
    /\ UNCHANGED <<cfg, df, top_n, x, order, ranked, out, fs, app, req, calls>>

\* GET /product-details/{product_name}, lines 105-136.
GetProductDetails ==
    /\ pc = "request" /\ req.op = "get_product_details"
    /\ IF ~app.data_processor
       THEN resp' = Response(503, <<>>) /\ UNCHANGED calls
       ELSE /\ calls' = Append(calls, CallOf("load_data", <<>>))
            /\ resp' = ExceptClauses(ProductDetailsBody(fs, req.product_name))
    /\ pc' = "finished"
    /\ UNCHANGED <<cfg, df, top_n, x, order, ranked, out, fs, app, req>>

ServiceNext ==
    \/ CallLoadData
    \/ PipelineLoad
    \/ PipelineProcess
    \/ PipelineSave
    \/ GetRankedProducts
    \/ RankedRespond
    \/ GetProductDetails
    \/ Next

ServiceSpec == ServiceInit /\ [][ServiceNext]_vars

(* ------------------------------- claims ------------------------------- *)
Done == pc = "done"

\* C1: process returns min(top_n, number of records that pass the filters)
\* rows when top_n >= 0 and no row when top_n < 0.  (At the return x holds
\* the records that passed the filters.)
C1_OutputLength ==
    Done => NRows(out) = IF EffectiveTopN >= 0
                         THEN Min(EffectiveTopN, NRows(x)) ELSE 0

\* C2: the ranks of an output of K rows are 1, 2, ..., K in row order.
C2_RanksOneToK ==
    Done => \A i \in 1..NRows(out) : out.rows[i]["rank"] = N(i)

C2_Witness ==
    Done /\ NRows(out) >= 2 /\ NRows(out) < NRows(x)

\* C3: scores do not increase down the output: of two rows the one with
\* the smaller rank has a score at least as large.
C3_ScoresNonIncreasing ==
    Done => \A i, j \in 1..NRows(out) :
                out.rows[i]["rank"].q[1] < out.rows[j]["rank"].q[1]
                    => RGe(out.rows[i]["score"].q, out.rows[j]["score"].q)

C3_Witness ==
    /\ Done
    /\ \E i, j \in 1..NRows(out) :
          /\ out.rows[i]["rank"].q[1] < out.rows[j]["rank"].q[1]
          /\ RGt(out.rows[i]["score"].q, out.rows[j]["score"].q)

\* C4: rank_products is stable: of two records with equal scores (here
\* with different product names, so that the order shows in the output)
\* the one that came first before the sort gets the smaller rank.  order[i]
\* is the pre-sort position of the record ranked i.
C4_StableTies ==
    pc \in {"project", "done"} =>
        \A i, j \in 1..Len(order) :
            ( /\ i < j
              /\ REq(x.rows[order[i]]["score"].q, x.rows[order[j]]["score"].q)
              /\ x.rows[order[i]]["Product Name"] # x.rows[order[j]]["Product Name"] )
            => order[i] < order[j]

\* Whether the filters keep the raw record r (of a table with the columns
\* cols), and a table restricted to the records they keep.
Passes(cols, r) ==
    NRows(ApplyFilters(CalculateFeatures(PreprocessData(Table(cols, <<r>>)),
                                         cfg.brand_tier_weights),
                       cfg.filters)) = 1
Restricted(t) == Table(t.cols, SelectSeq(t.rows, LAMBDA r : Passes(t.cols, r)))

\* C5: records the filter removes have no influence: process hands
\* rank_products the table (rows, features, normalized values and scores)
\* it hands it for the input restricted to the records that pass the
\* filters, so it returns the same rows, scores and ranks; and it returns
\* the empty output for the one exactly when it does for the other.  (A
\* record passes when the filter keeps it in a table of its own.)
C5_RemovedRecordsNoInfluence ==
    /\ pc = "rank" =>
           LET r == Restricted(df)
           IN  ~Empty(r) /\ x = RunFrom("preprocess", r, cfg)
    /\ (Done /\ ranked = NoTable) =>
           out = ProcessWith(Restricted(df), cfg, EffectiveTopN, <<>>)

C5_Witness ==
    /\ pc = "rank"
    /\ NRows(x) >= 2
    /\ NRows(x) < NRows(df)
    /\ \E i, j \in 1..NRows(x) : x.rows[i]["score"] # x.rows[j]["score"]

\* The records the two criteria name, the step of the filter, and the
\* table of the integration test under min_stock 10, max_inventory_days 90.
Removed(r, filters) ==
    \/ /\ filters.min_stock # None
       /\ RLt(r["units_in_stock"].q, filters.min_stock.q)
    \/ /\ filters.max_inventory_days # None
       /\ RGt(r["days_of_inventory"].q, filters.max_inventory_days.q)

FilterRemovesExactly ==
    pc = "filter" =>
        x'.rows = SelectSeq(x.rows, LAMBDA r : ~Removed(r, cfg.filters))

IsScenario ==
    /\ df = Table(RawCols, ScenarioRows)
    /\ cfg.filters = Filters(N(10), N(90))

ScenarioLeavesTwo ==
    (IsScenario /\ pc \in {"normalize", "score", "rank", "project", "done"}) =>
        /\ Col(x, "Product Name") = <<Str(<<"T", "1">>), Str(<<"T", "2">>)>>
        /\ (Done /\ EffectiveTopN >= 2) =>
               /\ NRows(out) = 2
               /\ {out.rows[i]["rank"] : i \in 1..2} = {N(1), N(2)}

\* C6: apply_filters removes exactly the records with units_in_stock below
\* a configured min_stock or days_of_inventory above a configured
\* max_inventory_days, and a criterion that is None removes nothing; with
\* min_stock 10 and max_inventory_days 90 the four records of the
\* integration test leave the first two, and process returns 2 ranked rows.
C6_FilterExact == [][FilterRemovesExactly]_vars /\ []ScenarioLeavesTwo

C6_Witness ==
    /\ IsScenario
    /\ Done
    /\ NRows(out) = 2

\* A raw Days of Inventory value that is missing or does not parse.
DaysUnusable(r) ==
    /\ "Days of Inventory" \in DOMAIN r
    /\ IsNaN(ToNumericCoerce(StripCommas(AsTypeStr(r["Days of Inventory"]))))

\* C7: with a max_inventory_days filter configured, no record whose
\* Days of Inventory value is missing or unparseable is in the output.
\* (ranked.rows[i] is the record behind the output's row i.)
C7_UnusableDaysExcluded ==
    (Done /\ cfg.filters.max_inventory_days # None) =>
        \A i \in 1..NRows(out) : ~DaysUnusable(ranked.rows[i])

\* The values a feature takes in a table, their extremes, and the
\* three-way rule.
FeatureSet == {FeaturesToNormalize[k] : k \in 1..Len(FeaturesToNormalize)}
Values(t, f) == {t.rows[i][f].q : i \in 1..NRows(t)}
Least(S)    == CHOOSE v \in S : \A w \in S : RLe(v, w)
Greatest(S) == CHOOSE v \in S : \A w \in S : RGe(v, w)

ThreeWay(v, lo, hi) ==
    IF RGt(hi, lo) THEN RDiv(RSub(v, lo), RSub(hi, lo))
    ELSE IF hi # Zero THEN One ELSE Zero

\* C8: normalize_features gives every record, in each of the four
\* features, (value - min)/(max - min) when max > min, 1.0 when all values
\* are tied at a value other than 0, and 0.0 when all are 0; a lone record
\* with a nonzero value gets 1.0.
C8_NormalizeThreeWay ==
    pc = "score" =>
        \A f \in FeatureSet : \A i \in 1..NRows(x) :
            /\ x.rows[i][NormName(f)].q =
                   ThreeWay(x.rows[i][f].q, Least(Values(x, f)), Greatest(Values(x, f)))
            /\ (NRows(x) = 1 /\ x.rows[1][f].q # Zero) => x.rows[1][NormName(f)].q = One

C8_Witness ==
    /\ pc = "score"
    /\ \E f \in FeatureSet : RGt(Greatest(Values(x, f)), Least(Values(x, f)))
    /\ \E f \in FeatureSet : Cardinality(Values(x, f)) = 1 /\ Values(x, f) # {Zero}
    /\ \E f \in FeatureSet : Values(x, f) = {Zero}

C8_WitnessLone ==
    /\ pc = "score"
    /\ NRows(x) = 1
    /\ \E f \in FeatureSet : x.rows[1][f].q # Zero /\ x.rows[1][NormName(f)].q = One

\* The sum of a sequence of numbers.
RECURSIVE SumSeq(_)
SumSeq(s) == IF Len(s) = 0 THEN Zero ELSE RAdd(s[1], SumSeq(Tail(s)))

\* What one entry adds to the score of the record r.
Contribution(r, key, weight) ==
    LET col == IF key = "brand_tier" THEN "norm_brand_tier_weight"
               ELSE IF key = "sales_velocity" THEN "norm_sales_velocity"
               ELSE IF key = "profit_margin" THEN "norm_profit_margin"
               ELSE IF key = "engagement" THEN "norm_engagement"
               ELSE "no such column"
    IN  IF col \in DOMAIN r THEN RMul(weight, r[col].q) ELSE Zero

\* C9: calculate_scores sets each score to the sum over the entries of
\* scoring_weights of weight * norm_<feature>, the key brand_tier reading
\* norm_brand_tier_weight; an entry with no normalized column is skipped,
\* and a feature without a weight adds nothing.
C9_ScoreIsWeightedSum ==
    pc = "rank" =>
        \A i \in 1..NRows(x) :
            x.rows[i]["score"].q =
                SumSeq([k \in 1..Len(cfg.scoring_weights) |->
                           Contribution(x.rows[i], cfg.scoring_weights[k][1],
                                        cfg.scoring_weights[k][2])])

C9_Witness ==
    /\ pc = "rank"
    /\ \E k \in 1..Len(cfg.scoring_weights) : cfg.scoring_weights[k][1] = "popularity"
    /\ \E i \in 1..NRows(x) : x.rows[i]["score"].q # Zero

C11_ScoreAndProfitMargin ==
    Done => HasCol(out, "score") /\ HasCol(out, "profit_margin")

\* C12: for an empty input, or one whose records the filters all remove,
\* process returns a table of no rows with the five output columns, and
\* normalize_features, calculate_scores and rank_products are not run: no
\* stage after the filter is ever reached, x has no normalized column and
\* no score, and nothing was sorted or ranked.
C12_EmptyShortCircuit ==
    /\ (Done /\ (Empty(df) \/ Empty(Restricted(df)))) =>
           /\ out = Table(<<"Product Name", "Brand", "Price (USD)", "score", "rank">>, <<>>)
           /\ ranked = NoTable
           /\ order = <<>>
           /\ ~HasCol(x, "score")
           /\ \A f \in FeatureSet : ~HasCol(x, NormName(f))
    /\ pc \in {"normalize", "score", "rank", "project"} =>
           ~Empty(df) /\ ~Empty(Restricted(df))

C12_Witness ==
    /\ Done
    /\ ~Empty(df)
    /\ Empty(Restricted(df))
    /\ NRows(out) = 0

\* C14: truncation leaves the earlier ranks alone: the output for a
\* top_n of k1 is the first k1 rows of the output for a top_n of k2 >= k1,
\* for the same input and weights (the sort sees the same scores whatever
\* top_n is, so it computes the same indexer in both calls).
C14_TruncationIsPrefix ==
    (Done /\ EffectiveTopN >= 0) =>
        \A k1 \in 0..EffectiveTopN :
            HeadRows(out, k1) =
                IF ranked = NoTable THEN EmptyOut
                ELSE FinalOutput(RankProducts(x, order, k1))

C14_Witness ==
    /\ Done
    /\ EffectiveTopN = 2
    /\ NRows(out) = 2
    /\ NRows(x) > 2
    /\ order[1] > 2

\* The sum of the configured weights.
SumWeights(weights) == SumSeq([k \in 1..Len(weights) |-> weights[k][2]])

\* C15: with no negative weight configured, every score of the output is
\* at least 0 and at most the sum of the weights, so at most 1 when the
\* weights sum to at most 1.
C15_ScoreBounds ==
    (Done /\ \A k \in 1..Len(cfg.scoring_weights) : RGe(cfg.scoring_weights[k][2], Zero)) =>
        \A i \in 1..NRows(out) :
            /\ RGe(out.rows[i]["score"].q, Zero)
            /\ RLe(out.rows[i]["score"].q, SumWeights(cfg.scoring_weights))
            /\ RLe(SumWeights(cfg.scoring_weights), One) => RLe(out.rows[i]["score"].q, One)

C15_Witness ==
    /\ Done
    /\ \E i, j \in 1..NRows(out) :
          /\ out.rows[i]["score"].q = SumWeights(cfg.scoring_weights)
          /\ out.rows[i]["score"].q = One
          /\ RGt(out.rows[j]["score"].q, Zero)
          /\ RLt(out.rows[j]["score"].q, One)

\* Whether the sequence a is b with some of its elements left out.
RECURSIVE IsSubseq(_, _)
IsSubseq(a, b) ==
    IF Len(a) = 0 THEN TRUE
    ELSE IF Len(b) = 0 THEN FALSE
    ELSE IF a[1] = b[1] THEN IsSubseq(Tail(a), Tail(b))
    ELSE IsSubseq(a, Tail(b))

\* C13: apply_filters only removes records: the table it returns has the
\* columns of its argument, and its rows are rows of the argument, every
\* value as it was, none added, in the order they had.
C13_FilterOnlyRemoves ==
    pc = Returned("apply_filters") =>
        /\ out.cols = df.cols
        /\ IsSubseq(out.rows, df.rows)

C13_Witness ==
    /\ pc = Returned("apply_filters")
    /\ NRows(out) > 0
    /\ NRows(out) < NRows(df)
    /\ \E i \in 1..NRows(out) : IsStr(out.rows[i]["days_of_inventory"])

\* C19: no stage changes the table it is given: after the call the
\* argument has the columns and values it had before.
C19_ArgumentUnchanged ==
    \A stage \in Stages : pc = Returned(stage) => x = df

\* C20: calculate_features sets profit_margin to 0 where price <= 0 and to
\* (price - cogs)/price elsewhere, negative when cogs > price, and
\* brand_tier_weight to the weight configured for the record's tier, 0 when
\* the tier is None or has no weight.
C20_Features ==
    pc = Returned("calculate_features") =>
        \A i \in 1..NRows(out) :
            LET r     == out.rows[i]
                price == df.rows[i]["price_usd"].q
                cogs  == df.rows[i]["cogs_usd"].q
                tier  == df.rows[i]["brand_tier"]
            IN  /\ r["profit_margin"].q =
                       IF RLe(price, Zero) THEN Zero ELSE RDiv(RSub(price, cogs), price)
                /\ RGt(cogs, price) /\ RGt(price, Zero) => RLt(r["profit_margin"].q, Zero)
                /\ r["brand_tier_weight"].q =
                       IF IsStr(tier) /\ tier.s \in DOMAIN cfg.brand_tier_weights
                       THEN cfg.brand_tier_weights[tier.s] ELSE Zero

C20_Witness ==
    /\ pc = Returned("calculate_features")
    /\ DOMAIN cfg.brand_tier_weights # {}
    /\ \E i, j \in 1..NRows(out) :
          /\ RLt(out.rows[i]["profit_margin"].q, Zero)
          /\ out.rows[i]["brand_tier_weight"].q = Q(4, 5)
          /\ df.rows[j]["price_usd"].q = Zero
          /\ df.rows[j]["brand_tier"] = None

\* The lines of a file that hold a record: its data lines, the blank ones
\* apart.
RecordLines(file) == {i \in 1..Len(file.data) : file.data[i] # <<>>}

\* C18: load_data raises FileNotFoundError, and returns no table, whenever
\* the path does not exist; when the file exists and read_csv can parse it,
\* load_data returns the table with the header's columns and one row per
\* data line of the file.
C18_LoadData ==
    (req.op = "load_data" /\ pc = "finished") =>
        /\ ~fs.raw.exists => resp = Raised("FileNotFoundError")
        /\ resp.kind = "raised" => ~fs.raw.exists /\ out = NoTable
        /\ (fs.raw.exists /\ ~ReadCsvRaises(fs.raw)) =>
              /\ resp.kind = "returned"
              /\ resp.table.cols = fs.raw.header
              /\ NRows(resp.table) = Cardinality(RecordLines(fs.raw))

C18_Witness ==
    /\ req.op = "load_data" /\ pc = "finished"
    /\ resp.kind = "returned"
    /\ NRows(resp.table) = 4
    /\ Len(fs.raw.data) = 5

PipelineOrder == <<"load_data", "process_and_score_data", "save_processed_data">>

\* C16: run_full_pipeline calls load, then process, then save, each at
\* most once and load exactly once; process is called, with the loaded
\* table and the given top_n, only if the loaded table is not empty,
\* otherwise the run returns an empty table and calls neither process nor
\* save; save is called, with the processed table, only if that table is
\* not empty; the run returns the processed table.
C16_PipelineOrder ==
    req.op = "run_full_pipeline" =>
        /\ Len(calls) <= 3
        /\ \A i \in 1..Len(calls) : calls[i].fn = PipelineOrder[i]
        /\ pc # "request" => Len(calls) >= 1 /\ calls[1].args = <<>>
        /\ Len(calls) >= 2 =>
              /\ LoadData(fs.raw) = Returns(df)
              /\ ~Empty(df)
              /\ calls[2].args = <<df, req.top_n>>
        /\ Len(calls) = 3 => ~Empty(out) /\ calls[3].args = <<out>>
        /\ pc = "finished" =>
              IF LoadData(fs.raw).kind = "raised"
              THEN resp = LoadData(fs.raw) /\ Len(calls) = 1
              ELSE IF Empty(LoadData(fs.raw).table)
              THEN resp.kind = "returned" /\ Empty(resp.table) /\ Len(calls) = 1
              ELSE /\ out = ProcessWith(df, cfg, PipelineTopN(req.top_n, cfg), order)
                   /\ resp = Returns(out)
                   /\ Len(calls) = (IF Empty(out) THEN 2 ELSE 3)

C16_Witness ==
    /\ req.op = "run_full_pipeline" /\ pc = "finished"
    /\ Len(calls) = 3
    /\ NRows(resp.table) = 2

\* The raw file, loaded, has no row whose product name is the given one.
NoRowNamed(file, name) ==
    /\ file.exists /\ ~ReadCsvRaises(file)
    /\ \A i \in 1..NRows(ReadCsv(file)) :
          ReadCsv(file).rows[i]["Product Name"] # Str(name)

\* C17: with its resources loaded, get_ranked_products responds 404 when
\* neither the processed nor the raw file exists, and get_product_details
\* responds 404 when the raw file is absent or empty or no row has the
\* requested name; a 500 is the response to other failures only.
C17_NotFoundIs404 ==
    (pc = "finished" /\ app.scorer /\ app.data_processor) =>
        /\ ( /\ req.op = "get_ranked_products"
             /\ ~fs.processed.exists /\ ~fs.raw.exists ) => resp.status = 404
        /\ ( /\ req.op = "get_product_details"
             /\ \/ ~fs.raw.exists
                \/ Empty(LoadData(fs.raw).table)
                \/ NoRowNamed(fs.raw, req.product_name) ) => resp.status = 404

====
